---- MODULE Spec2Model ----
(***************************************************************************)
(* A model of the browser-side controller of agar-s3-manager               *)
(* (src/frontend/assets/js/app.js): the admin tab's refresh-job poller and *)
(* the three batch-processing phases of the processing tab, and the file   *)
(* browser's list, filter, pagination, selection and file operations.      *)
(*                                                                         *)
(* JavaScript runs a handler without interruption up to its next await, so *)
(* one action of the model is one such run: a click up to the first        *)
(* request it awaits, or the arrival of a response up to the next request  *)
(* (or the return) of the handler that awaited it.                         *)
(*                                                                         *)
(* null / undefined / '' are modelled by 0 where the value is an id.       *)
(***************************************************************************)
EXTENDS Integers, Sequences, FiniteSets, TLC

\* ------------------------------------------------------------------------
\* Bounds of the model
\* ------------------------------------------------------------------------
MaxTimerId == 2       \* setInterval is called at most this many times
MaxInFlight == 2      \* status requests in flight at once
MaxStatsReqs == 1     \* stats requests in flight at once
MaxCancelReqs == 1    \* DELETE requests in flight at once

Max(a, b) == IF a >= b THEN a ELSE b
Min(a, b) == IF a <= b THEN a ELSE b

\* ------------------------------------------------------------------------
\* State of the admin tab (adminState and what the poller displays)
\* ------------------------------------------------------------------------
VARIABLES
    pollingInterval,     \* adminState.pollingInterval: 0 (null) or a timer id
    currentJobId,        \* adminState.currentJobId: 0 (null) or a job id
    activeTimers,        \* the browser's table of live setInterval timers
    nextTimerId,         \* the id the next setInterval call returns
    statusReqs,          \* GET /api/admin/refresh/status requests in flight
    statsReqs,           \* GET /api/admin/stats requests in flight
    refreshReqs,         \* POST /api/admin/refresh requests in flight
    cancelReqs,          \* DELETE /api/admin/refresh/jobs/<id> in flight
    refreshBtnDisabled,  \* startRefreshBtn.disabled
    currentJobSection,   \* currentJobSection is displayed
    jobDisplay,          \* the job status shown by updateJobDisplay
    adminStatus,         \* the banner of showAdminStatus: [type, text]
    adminEvent           \* history: the last step that wrote adminState or the
                         \* status banner, its input and the handle it found

adminVars == <<pollingInterval, currentJobId, activeTimers, nextTimerId,
               statusReqs, statsReqs, refreshReqs, cancelReqs,
               refreshBtnDisabled, currentJobSection, jobDisplay,
               adminStatus, adminEvent>>

\* ------------------------------------------------------------------------
\* State of the processing tab (processingState, the phase controls and the
\* locals of the phase run in progress)
\* ------------------------------------------------------------------------
VARIABLES
    apiConfigured,        \* processingState.apiConfigured
    currentScrapeRunPath, \* processingState.currentScrapeRunPath: "" or a path
    jobs,                 \* processingState.jobs: phase -> job id, 0 is null
    phaseStatus,          \* the <phase>PhaseStatus label: "pending"/"complete"
    processingStatus,     \* the banner of showProcessingStatus
    btnDisabled,          \* the phases whose start button is disabled
    progress,             \* what update<Phase>Progress displayed last
    phase,                \* the phase whose start handler is running
    pc,                   \* where that handler is suspended
    batchSize,            \* its local batchSize
    jobId,                \* its local startResult.jobId
    workList,             \* processingState.data.products / pdfs / entities
    i,                    \* the loop variable of process<Phase>Batches
    processed,            \* its local processed
    failed,               \* its local failed
    batch,                \* its local batch, the slice of this iteration
    pdfBatchData,         \* processPdfBatches' local payload
    k,                    \* the position in batch of the PDF being fetched
    sentLog,              \* history: the batch requests sent by this run
    batchReqs,            \* history: how many of them await their answer
    serverExact,          \* history: every answer so far counted = sent
    serverBounded,        \* history: every answer so far counted <= sent
    loopEnded,            \* history: the batch loop of this run has ended
    runs,                 \* history: the phase runs started so far
    procEvent             \* history: the last step of a phase's start handler

procVars == <<apiConfigured, currentScrapeRunPath, jobs, phaseStatus,
              processingStatus, btnDisabled, progress, phase, pc, batchSize,
              jobId, workList, i, processed, failed, batch, pdfBatchData, k,
              sentLog, batchReqs, serverExact, serverBounded, loopEnded, runs,
              procEvent>>

\* ------------------------------------------------------------------------
\* State of the file browser (the globals at the top of app.js and the
\* select-all checkbox)
\* ------------------------------------------------------------------------
VARIABLES
    allFiles,         \* allFiles: the entries of the last folder loaded
    filteredFiles,    \* filteredFiles: the entries the list shows
    currentPage,      \* currentPage
    totalPages,       \* totalPages
    selectedFiles,    \* selectedFiles: a set of keys
    selectAll,        \* the select-all checkbox is checked
    loadReqs,         \* folder-contents requests awaiting their answer
    selTrail,         \* history: how far the steps "select all, toggle a
                      \* file off, toggle it on again" have got, and the file
    loadPaths,        \* history: the folder_path of each of those requests
                      \* (how many of them ask for each folder)
    loadedPath        \* history: the folder_path of the request whose
                      \* answer allFiles holds ("none": nothing loaded yet)

browserVars == <<allFiles, filteredFiles, currentPage, totalPages,
                 selectedFiles, selectAll, loadReqs, selTrail, loadPaths,
                 loadedPath>>

\* ------------------------------------------------------------------------
\* State of a phase's results list (the <phase>ResultsList element)
\* ------------------------------------------------------------------------
VARIABLES
    resultsPhase,     \* the phase whose batch loop fills the list
    resultsLen,       \* resultsListEl.children.length
    resultsChunks     \* history: the batch answers handled by that loop

resultsVars == <<resultsPhase, resultsLen, resultsChunks>>

\* ------------------------------------------------------------------------
\* State of the file operations (upload, download, delete, move and folder
\* creation): two more globals, the status banner and the locals of the
\* operation in progress
\* ------------------------------------------------------------------------
VARIABLES
    currentFolderPath,    \* currentFolderPath: "" (root) or a folder path
    moveDestinationPath,  \* moveDestinationPath: "null", "" or a folder path
    fileStatus,           \* the banner of showStatus
    opName,               \* the handler that is suspended at an await
    opPc,                 \* where: "idle", "request" or "reload"
    opReqs,               \* its requests awaiting their answer
    opTotal,              \* handleFileUpload's files.length
    uploadIndex,          \* handleFileUpload's loop variable i
    opVisited,            \* the entries of selectedFiles the for-of loop's
                          \* iterator has passed
    opCount,              \* uploadedCount / deletedCount / movedCount
    opAtStart,            \* history: what the handler found when it began
                          \* (the keys selected; for an upload the current
                          \* folder)
    opSent                \* history: what its requests so far carried (the
                          \* key; for an upload the folder_path)

fileOpsVars == <<currentFolderPath, moveDestinationPath, fileStatus, opName,
                 opPc, opReqs, opTotal, uploadIndex, opVisited, opCount,
                 opAtStart, opSent>>

\* The file-operation state a change of the selection leaves alone.
opKept == <<currentFolderPath, moveDestinationPath, fileStatus, opName, opPc,
            opReqs, opTotal, uploadIndex, opCount, opAtStart, opSent>>

\* What the handlers of one part of the page leave alone.
besidesAdmin == <<procVars, browserVars, resultsVars, fileOpsVars>>
besidesProc == <<adminVars, browserVars, resultsVars, fileOpsVars>>
besidesBrowser == <<adminVars, procVars, resultsVars, fileOpsVars>>
besidesResults == <<adminVars, procVars, browserVars, fileOpsVars>>
besidesFiles == <<adminVars, procVars, resultsVars>>
besidesSelection == <<adminVars, procVars, resultsVars, opKept>>

vars == <<adminVars, procVars, browserVars, resultsVars, fileOpsVars>>

\* What a status poll can come back with: the request throws, the answer has
\* no job (or is not ok / not success), or it carries a job with a status.
\* The code tests the status for the three terminal values only; the others
\* stand for every status of a job that has not ended.
ActiveStatuses == {"running", "processing", "pending"}
TerminalStatuses == {"completed", "failed", "cancelled"}
JobStatuses == ActiveStatuses \cup TerminalStatuses
StatusOutcomes == {"throw", "nojob"} \cup JobStatuses

\* What a POST or DELETE can come back with: ok and success, an answer that
\* is not ok or has success=false, or a thrown request.
CallOutcomes == {"ok", "rejected", "throw"}

Event(op, out, prev) == [op |-> op, out |-> out, prev |-> prev]
Banner(type, text) == [type |-> type, text |-> text]

\* ------------------------------------------------------------------------
\* The timer handle: startJobPolling / stopJobPolling
\* ------------------------------------------------------------------------
PollerState == [pollingInterval |-> pollingInterval,
                activeTimers |-> activeTimers]

\* clearInterval(id) removes the timer from the browser's table.
clearInterval(timers, id) == timers \ {id}

stopJobPolling_KeepHandle(s) ==
    IF s.pollingInterval # 0
    THEN [pollingInterval |-> s.pollingInterval,
          activeTimers |-> s.activeTimers]
    ELSE s

stopJobPolling(s) ==
    IF s.pollingInterval # 0
    THEN [pollingInterval |-> 0,
          activeTimers |-> clearInterval(s.activeTimers, s.pollingInterval)]
    ELSE s

startJobPolling_NoClear(s, id) ==
    [pollingInterval |-> id, activeTimers |-> s.activeTimers \cup {id}]

\* The timer part of startJobPolling; the immediate checkCurrentJob() it ends
\* with is issued by the action that calls it (RefreshResponse).
startJobPolling(s, id) ==
    LET cleared == IF s.pollingInterval # 0
                   THEN clearInterval(s.activeTimers, s.pollingInterval)
                   ELSE s.activeTimers
    IN [pollingInterval |-> id, activeTimers |-> cleared \cup {id}]

\* The status requests in flight are kept as a bag: statusReqs[t] is the
\* number of them that were issued under the timer handle t (0: under none,
\* by initializeAdminTab).
Handles == 0..MaxTimerId

InFlight(reqs) == LET Sum[t \in -1..MaxTimerId] ==
                          IF t = -1 THEN 0 ELSE reqs[t] + Sum[t - 1]
                  IN Sum[MaxTimerId]

IssueStatus(reqs, timer) == [reqs EXCEPT ![timer] = @ + 1]

AnswerStatus(reqs, timer) == [reqs EXCEPT ![timer] = @ - 1]

\* ------------------------------------------------------------------------
\* Admin actions
\* ------------------------------------------------------------------------
AdminInit ==
    /\ pollingInterval = 0
    /\ currentJobId = 0
    /\ activeTimers = {}
    /\ nextTimerId = 1
    /\ statusReqs = [t \in Handles |-> 0]
    /\ statsReqs = 0
    /\ refreshReqs = 0
    /\ cancelReqs = 0
    /\ refreshBtnDisabled = FALSE
    /\ currentJobSection = FALSE
    /\ jobDisplay = "none"
    /\ adminStatus = Banner("none", "none")
    /\ adminEvent = Event("init", "none", 0)

\* initializeAdminTab: after the health, scrape-run and reset-preview loads
\* (which touch neither adminState nor the poller) it calls checkCurrentJob.
initializeAdminTab ==
    /\ InFlight(statusReqs) < MaxInFlight
    /\ statusReqs' = IssueStatus(statusReqs, 0)
    /\ UNCHANGED adminEvent
    /\ UNCHANGED <<pollingInterval, currentJobId, activeTimers, nextTimerId,
                   statsReqs, refreshReqs, cancelReqs, refreshBtnDisabled,
                   currentJobSection, jobDisplay, adminStatus>>
    /\ UNCHANGED besidesAdmin

\* startRefresh up to its await: the button is disabled, the POST is sent.
startRefresh ==
    /\ ~refreshBtnDisabled
    /\ refreshBtnDisabled' = TRUE
    /\ refreshReqs' = refreshReqs + 1
    /\ UNCHANGED adminEvent
    /\ UNCHANGED <<pollingInterval, currentJobId, activeTimers, nextTimerId,
                   statusReqs, statsReqs, cancelReqs, currentJobSection,
                   jobDisplay, adminStatus>>
    /\ UNCHANGED besidesAdmin

\* The assignment of result.jobId left out.
NewJobId_Kept == currentJobId

\* result.jobId of a successful refresh start: the server hands every job it
\* starts an id of its own, here the number of the start.
NewJobId == nextTimerId

\* startRefresh from the POST's answer to its return.
RefreshResponse(out) ==
    /\ refreshReqs > 0
    /\ refreshReqs' = refreshReqs - 1
    /\ refreshBtnDisabled' = FALSE
    /\ adminEvent' = Event("RefreshResponse", out, pollingInterval)
    /\ IF out = "ok"
       THEN /\ nextTimerId <= MaxTimerId
            /\ InFlight(statusReqs) < MaxInFlight
            /\ currentJobId' = NewJobId
            /\ adminStatus' = Banner("success", "Refresh started")
            /\ currentJobSection' = TRUE
            /\ LET s == startJobPolling(PollerState, nextTimerId)
               IN /\ pollingInterval' = s.pollingInterval
                  /\ activeTimers' = s.activeTimers
            /\ nextTimerId' = nextTimerId + 1
            /\ statusReqs' = IssueStatus(statusReqs, nextTimerId)
       ELSE /\ adminStatus' = Banner("error", "Error")
            /\ UNCHANGED <<currentJobId, currentJobSection, pollingInterval,
                           activeTimers, nextTimerId, statusReqs>>
    /\ UNCHANGED <<statsReqs, cancelReqs, jobDisplay>>
    /\ UNCHANGED besidesAdmin

\* One firing of a live timer: the callback calls checkCurrentJob.
Tick(t) ==
    /\ t \in activeTimers
    /\ InFlight(statusReqs) < MaxInFlight
    /\ statusReqs' = IssueStatus(statusReqs, t)
    /\ UNCHANGED adminEvent
    /\ UNCHANGED <<pollingInterval, currentJobId, activeTimers, nextTimerId,
                   statsReqs, refreshReqs, cancelReqs, refreshBtnDisabled,
                   currentJobSection, jobDisplay, adminStatus>>
    /\ UNCHANGED besidesAdmin

jobFinished_OrPending(status) == status \in TerminalStatuses \cup {"pending"}

\* The test on result.job.status that ends the polling.
jobFinished(status) == status \in TerminalStatuses

statsRefreshes_Always(status) == 1

\* The loadAdminStats calls of checkCurrentJob for a job of this status.
statsRefreshes(status) == IF jobFinished(status) THEN 1 ELSE 0

requestThrew_Never(out) == FALSE

\* fetch or response.json() threw: control is in checkCurrentJob's catch.
requestThrew(out) == out = "throw"

\* checkCurrentJob from the answer of its status request on.
checkCurrentJob(r, out) ==
    /\ statusReqs[r] > 0
    /\ statusReqs' = AnswerStatus(statusReqs, r)
    /\ adminEvent' = Event("checkCurrentJob", out, pollingInterval)
    /\ CASE requestThrew(out) ->
              UNCHANGED <<pollingInterval, activeTimers, currentJobSection,
                          jobDisplay, statsReqs>>
         [] out = "nojob" ->
              /\ currentJobSection' = FALSE
              /\ LET s == stopJobPolling(PollerState)
                 IN /\ pollingInterval' = s.pollingInterval
                    /\ activeTimers' = s.activeTimers
              /\ UNCHANGED <<jobDisplay, statsReqs>>
         [] OTHER ->
              /\ statsReqs + statsRefreshes(out) <= MaxStatsReqs
              /\ currentJobSection' = TRUE
              /\ jobDisplay' = out
              /\ LET s == IF jobFinished(out)
                          THEN stopJobPolling(PollerState)
                          ELSE PollerState
                 IN /\ pollingInterval' = s.pollingInterval
                    /\ activeTimers' = s.activeTimers
              /\ statsReqs' = statsReqs + statsRefreshes(out)
    /\ UNCHANGED <<currentJobId, nextTimerId, refreshReqs, cancelReqs,
                   refreshBtnDisabled, adminStatus>>
    /\ UNCHANGED besidesAdmin

\* loadAdminStats from its answer on: only the statistics tiles change.
loadAdminStatsResponse ==
    /\ statsReqs > 0
    /\ statsReqs' = statsReqs - 1
    /\ UNCHANGED adminEvent
    /\ UNCHANGED <<pollingInterval, currentJobId, activeTimers, nextTimerId,
                   statusReqs, refreshReqs, cancelReqs, refreshBtnDisabled,
                   currentJobSection, jobDisplay, adminStatus>>
    /\ UNCHANGED besidesAdmin

\* cancelCurrentJob up to its await (the user confirms the dialog; declining
\* it returns without any effect).
cancelCurrentJob ==
    /\ IF currentJobId = 0
       THEN /\ adminStatus' = Banner("warning", "No active job to cancel")
            /\ adminEvent' = Event("cancelCurrentJob", "nojob", pollingInterval)
            /\ UNCHANGED cancelReqs
       ELSE /\ cancelReqs < MaxCancelReqs
            /\ cancelReqs' = cancelReqs + 1
            /\ UNCHANGED <<adminStatus, adminEvent>>
    /\ UNCHANGED <<pollingInterval, currentJobId, activeTimers, nextTimerId,
                   statusReqs, statsReqs, refreshReqs, refreshBtnDisabled,
                   currentJobSection, jobDisplay>>
    /\ UNCHANGED besidesAdmin

cancelSucceeded_Always(out) == TRUE

\* The test `response.ok && result.success` on the DELETE's answer.
cancelSucceeded(out) == out = "ok"

\* cancelCurrentJob from the DELETE's answer on.
CancelResponse(out) ==
    /\ cancelReqs > 0
    /\ cancelReqs' = cancelReqs - 1
    /\ adminEvent' = Event("CancelResponse", out, pollingInterval)
    /\ IF out # "throw" /\ cancelSucceeded(out)
       THEN /\ adminStatus' = Banner("success", "Job cancelled")
            /\ LET s == stopJobPolling(PollerState)
               IN /\ pollingInterval' = s.pollingInterval
                  /\ activeTimers' = s.activeTimers
            /\ currentJobSection' = FALSE
            /\ currentJobId' = 0
       ELSE /\ adminStatus' = Banner("error", IF out = "throw"
                                              THEN "Error"
                                              ELSE "Failed to cancel job")
            /\ UNCHANGED <<pollingInterval, activeTimers, currentJobSection,
                           currentJobId>>
    /\ UNCHANGED <<nextTimerId, statusReqs, statsReqs, refreshReqs,
                   refreshBtnDisabled, jobDisplay>>
    /\ UNCHANGED besidesAdmin

AdminNext ==
    \/ initializeAdminTab
    \/ startRefresh
    \/ \E out \in CallOutcomes : RefreshResponse(out)
    \/ \E t \in activeTimers : Tick(t)
    \/ \E r \in Handles, out \in StatusOutcomes : checkCurrentJob(r, out)
    \/ loadAdminStatsResponse
    \/ cancelCurrentJob
    \/ \E out \in CallOutcomes : CancelResponse(out)


\* ------------------------------------------------------------------------
\* Processing tab: bounds, inputs and pure helpers
\* ------------------------------------------------------------------------
MaxN == 3             \* longest work list the server returns
MaxField == 2         \* largest number typed into a batch-size field
MaxNegField == 1      \* most negative number typed there: -MaxNegField
MaxRuns == 1          \* phase runs started in one behaviour
IndexFloor == 3       \* i is tracked down to -IndexFloor (see SatIndex)
MaxLog == MaxN + 1    \* sentLog records the first MaxLog requests of a run

Phases == {"metadata", "pdf", "embeddings"}

\* The fallback of `parseInt(field.value) || default` of each phase.
MetadataDefaultBatch == 10
PdfDefaultBatch == 5
EmbeddingsDefaultBatch == 20

DefaultBatchSize(ph) ==
    CASE ph = "metadata" -> MetadataDefaultBatch
      [] ph = "pdf" -> PdfDefaultBatch
      [] OTHER -> EmbeddingsDefaultBatch

\* What parseInt makes of a batch-size field: NaN or an integer.
FieldValues ==
    {[nan |-> TRUE, val |-> 0]} \cup
    {[nan |-> FALSE, val |-> v] : v \in (0 - MaxNegField)..MaxField}

\* parseInt(value) || default: NaN and 0 are falsy, every other integer,
\* negative ones included, is kept.
parseBatchSize(f, ph) ==
    IF f.nan \/ f.val = 0 THEN DefaultBatchSize(ph) ELSE f.val

\* Array.prototype.slice(from, to): a negative index counts from the end,
\* both are clamped to 0..length, and the result is empty if to <= from.
RelIndex(x, n) == IF x < 0 THEN Max(n + x, 0) ELSE Min(x, n)

slice_DropLast(s, from, to) ==
    LET a == RelIndex(from, Len(s))
        b == RelIndex(to, Len(s)) - 1
    IN IF b <= a THEN <<>> ELSE SubSeq(s, a + 1, b)

slice(s, from, to) ==
    LET a == RelIndex(from, Len(s))
        b == RelIndex(to, Len(s))
    IN IF b <= a THEN <<>> ELSE SubSeq(s, a + 1, b)

\* With a negative batchSize i runs through 0, -B, -2B, ... without end.  For
\* every i < 0 the loop does the same thing (i < total holds and the slice
\* from i to i + batchSize is empty), so values below -IndexFloor are
\* identified with -IndexFloor; for batchSize >= 1 i is never negative.
SatIndex(x) == Max(x, 0 - IndexFloor)

nextIndex_Stay(x, b) == SatIndex(x)

\* i += batchSize
nextIndex(x, b) == SatIndex(x + b)

\* Math.round((processed + failed) / total * 100), for total > 0.
percentOf(p, f, total) == (200 * (p + f) + total) \div (2 * total)

updateProgress_Remaining(p, f, total) ==
    [processed |-> p, failed |-> f, percent |-> 100 - percentOf(p, f, total)]

\* update<Phase>Progress: the two counters and the percent it displays.
updateProgress(p, f, total) ==
    [processed |-> p, failed |-> f, percent |-> percentOf(p, f, total)]

\* What the catch of a thrown batch request adds to failed: batch.length in
\* the metadata and embeddings phases, pdfBatchData.length in the PDF phase.
thrownCount_WholeChunk(ph, b, data) == Len(b)

thrownCount_Zero(ph, b, data) == 0

thrownCount(ph, b, data) == IF ph = "pdf" THEN Len(data) ELSE Len(b)

PBanner(type, text, p, f) ==
    [type |-> type, text |-> text, processed |-> p, failed |-> f]

completionBanner_ErrorOnFailure(p, f) ==
    PBanner(IF f > 0 THEN "error" ELSE "success", "complete", p, f)

\* showProcessingStatus(`... complete: ${processed} succeeded, ${failed}
\* failed`, 'success')
completionBanner(p, f) == PBanner("success", "complete", p, f)

\* The entities the embeddings phase works on: filter(e => !e.hasEmbedding)
\* over the listed entities, which are named by their position in the list.
withoutEmbeddings(flags) ==
    SelectSeq([n \in 1..Len(flags) |-> n], LAMBDA n : ~flags[n])

Iota(n) == [m \in 1..n |-> m]

BoolSeqs(n) == UNION {[1..m -> BOOLEAN] : m \in 0..n}

\* The work list a successful enumerate answer yields in a phase.
WorkLists(ph) ==
    IF ph = "embeddings"
    THEN {withoutEmbeddings(fl) : fl \in BoolSeqs(MaxN)}
    ELSE {Iota(n) : n \in 0..MaxN}

LogAppend(log, e) == IF Len(log) < MaxLog THEN Append(log, e) ELSE log

\* The counts {processed, failed} a batch answer may report for a request of
\* n items: all processed, all failed, one failed, one item left out of the
\* counts, or one item more than was sent.
ReportedCounts(n) ==
    {c \in {<<n, 0>>, <<0, n>>, <<n - 1, 1>>, <<n - 1, 0>>, <<n + 1, 0>>} :
        c[1] >= 0}

\* The items a batch request of the current iteration carries.
Payload == IF phase = "pdf" THEN pdfBatchData ELSE batch

\* The record of a handler step.  For a batch request that threw, and for
\* the answers of the per-PDF download and fetch, it also holds what the step
\* found: the loop index, the number of items in the payload, the size of the
\* chunk and the two counters.
PEvent(op, out) ==
    IF \/ op = "BatchResponse" /\ out = "throw"
       \/ op \in {"DownloadResponse", "FetchResponse"}
    THEN [op |-> op, out |-> out, at |-> i, sent |-> Len(Payload),
          chunk |-> Len(batch), processedBefore |-> processed,
          failedBefore |-> failed]
    ELSE [op |-> op, out |-> out, at |-> 0, sent |-> 0, chunk |-> 0,
          processedBefore |-> 0, failedBefore |-> 0]

configVars == <<apiConfigured, currentScrapeRunPath>>

\* What a handler that is past its first await leaves alone.
keptVars == <<configVars, runs>>

\* ------------------------------------------------------------------------
\* Processing actions
\* ------------------------------------------------------------------------
ProcInit ==
    /\ apiConfigured = FALSE
    /\ currentScrapeRunPath = ""
    /\ jobs = [ph \in Phases |-> 0]
    /\ phaseStatus = [ph \in Phases |-> "pending"]
    /\ processingStatus = PBanner("none", "none", 0, 0)
    /\ btnDisabled = {}
    /\ progress = [processed |-> 0, failed |-> 0, percent |-> 0]
    /\ phase = "none"
    /\ pc = "idle"
    /\ batchSize = 0
    /\ jobId = 0
    /\ workList = <<>>
    /\ i = 0
    /\ processed = 0
    /\ failed = 0
    /\ batch = <<>>
    /\ pdfBatchData = <<>>
    /\ k = 0
    /\ sentLog = <<>>
    /\ batchReqs = 0
    /\ serverExact = TRUE
    /\ serverBounded = TRUE
    /\ loopEnded = FALSE
    /\ runs = 0
    /\ procEvent = [op |-> "init", out |-> "none", at |-> 0, sent |-> 0,
                    chunk |-> 0, processedBefore |-> 0, failedBefore |-> 0]

\* checkProcessingApiConfig from the answer of its request on; a thrown
\* request or an answer without `configured` gives FALSE.  Only the checks at
\* the top of the start handlers read apiConfigured, so an answer that
\* arrives while a phase runs is taken when the phase has returned.
checkProcessingApiConfig(configured) ==
    /\ pc = "idle"
    /\ apiConfigured' = configured
    /\ UNCHANGED <<procEvent, currentScrapeRunPath, jobs, phaseStatus, processingStatus,
                   btnDisabled, progress, phase, pc, batchSize, jobId,
                   workList, i, processed, failed, batch, pdfBatchData, k,
                   sentLog, batchReqs, serverExact, serverBounded, loopEnded,
                   runs>>
    /\ UNCHANGED besidesProc

\* confirmScrapeRunSelection with a folder chosen in the selector; which
\* folder it is plays no part in what the handlers do.
confirmScrapeRunSelection ==
    /\ pc # "spin"
    /\ currentScrapeRunPath' = "scrape-run"
    /\ processingStatus' = PBanner("success", "Scrape run selected", 0, 0)
    /\ UNCHANGED <<procEvent, apiConfigured, jobs, phaseStatus, btnDisabled, progress,
                   phase, pc, batchSize, jobId, workList, i, processed,
                   failed, batch, pdfBatchData, k, sentLog, batchReqs,
                   serverExact, serverBounded, loopEnded, runs>>
    /\ UNCHANGED besidesProc

\* The checks at the top of start<Phase>Processing: the API must be marked
\* configured and, except for the embeddings phase, a scrape run selected.
precondition_NoPathCheck(ph, configured, path) ==
    IF ~configured THEN "notConfigured" ELSE "met"

precondition(ph, configured, path) ==
    IF ~configured THEN "notConfigured"
    ELSE IF ph # "embeddings" /\ path = "" THEN "noScrapeRun"
    ELSE "met"

\* start<Phase>Processing up to its first await.
StartPhase(ph, field) ==
    /\ pc = "idle"
    /\ ph \notin btnDisabled
    /\ IF precondition(ph, apiConfigured, currentScrapeRunPath) = "notConfigured"
       THEN /\ processingStatus' = PBanner("error", "not configured", 0, 0)
            /\ procEvent' = PEvent("StartPhase", "notConfigured")
            /\ UNCHANGED <<phase, pc, batchSize, btnDisabled, runs>>
       ELSE IF precondition(ph, apiConfigured, currentScrapeRunPath) = "noScrapeRun"
       THEN /\ processingStatus' = PBanner("warning", "select a scrape run", 0, 0)
            /\ procEvent' = PEvent("StartPhase", "noScrapeRun")
            /\ UNCHANGED <<phase, pc, batchSize, btnDisabled, runs>>
       ELSE /\ runs < MaxRuns
            /\ runs' = runs + 1
            /\ phase' = ph
            /\ batchSize' = parseBatchSize(field, ph)
            /\ btnDisabled' = btnDisabled \cup {ph}
            /\ pc' = "start"
            /\ procEvent' = PEvent("StartPhase", "sent")
            /\ UNCHANGED processingStatus
    /\ UNCHANGED <<configVars, jobs, phaseStatus, progress, jobId, workList,
                   i, processed, failed, batch, pdfBatchData, k, sentLog,
                   batchReqs, serverExact, serverBounded, loopEnded>>
    /\ UNCHANGED besidesProc

\* The finally block of start<Phase>Processing: the button is enabled again
\* and refreshJobList is awaited.
Finally ==
    /\ btnDisabled' = btnDisabled \ {phase}
    /\ pc' = "jobs"

\* The catch block of start<Phase>Processing followed by its finally.
CatchAndFinally(message) ==
    /\ processingStatus' = PBanner("error", message, 0, 0)
    /\ Finally

\* The message of the error the catch block gets: `result.error || 'Failed
\* to ...'` when the answer says success=false, the exception's own message
\* when the request throws.
errorMessage(out) ==
    CASE out = "fail" -> "server error"
      [] out = "failbare" -> "Failed to"
      [] OTHER -> "exception"

\* The test `startResult.success` on the start request's answer.
startSucceeded_Unless_Thrown(out) == out # "throw"

startSucceeded(out) == out = "ok"

\* start<Phase>Processing from the answer of the start request on.  The
\* server creates a job per start call: the id it hands out is taken to be
\* the number of the run.
StartResponse(out) ==
    /\ pc = "start"
    /\ procEvent' = PEvent("StartResponse", out)
    /\ IF startSucceeded(out)
       THEN /\ jobs' = [jobs EXCEPT ![phase] = runs]
            /\ jobId' = runs
            /\ processingStatus' = PBanner("success", "job started", 0, 0)
            /\ pc' = "enumerate"
            /\ UNCHANGED btnDisabled
       ELSE /\ CatchAndFinally(errorMessage(out))
            /\ UNCHANGED <<jobs, jobId>>
    /\ UNCHANGED <<keptVars, phaseStatus, progress, phase, batchSize,
                   workList, i, processed, failed, batch, pdfBatchData, k,
                   sentLog, batchReqs, serverExact, serverBounded, loopEnded>>
    /\ UNCHANGED besidesProc

\* The for statement of process<Phase>Batches evaluated at index ni with the
\* counters np and nf, up to the next await: either the next iteration begins
\* (its slice is taken and its first request sent) or the loop ends, the phase
\* is marked complete, the summary is shown and the start handler's finally
\* runs.  nr is the number of batch requests still unanswered at that point.
EnterLoop(list, ni, np, nf, log, nr) ==
    LET nb == slice(list, ni, ni + batchSize)
    IN /\ i' = ni
       /\ processed' = np
       /\ failed' = nf
       /\ pdfBatchData' = <<>>
       /\ IF ni < Len(list)
          THEN /\ batch' = nb
               /\ loopEnded' = FALSE
               /\ UNCHANGED <<phaseStatus, processingStatus, btnDisabled>>
               /\ IF phase = "pdf"
                  THEN /\ sentLog' = log
                       /\ batchReqs' = nr
                       /\ k' = IF nb # <<>> THEN 1 ELSE 0
                       /\ pc' = IF nb # <<>> THEN "download" ELSE "spin"
                  ELSE /\ sentLog' = LogAppend(log, [at |-> ni, items |-> nb])
                       /\ batchReqs' = nr + 1
                       /\ k' = 0
                       /\ pc' = "batch"
          ELSE /\ batch' = <<>>
               /\ k' = 0
               /\ sentLog' = log
               /\ batchReqs' = nr
               /\ loopEnded' = TRUE
               /\ phaseStatus' = [phaseStatus EXCEPT ![phase] = "complete"]
               /\ processingStatus' = completionBanner(np, nf)
               /\ Finally

hasWork_Always(list) == TRUE

\* The test `total > 0` that guards the call of process<Phase>Batches.
hasWork(list) == Len(list) > 0

\* start<Phase>Processing from the answer of the enumerate request on.
EnumerateResponse(out, list) ==
    /\ pc = "enumerate"
    /\ procEvent' = PEvent("EnumerateResponse", out)
    /\ IF out = "ok"
       THEN /\ workList' = list
            /\ IF hasWork(list)
               THEN EnterLoop(list, 0, 0, 0, <<>>, batchReqs)
               ELSE /\ processingStatus' = PBanner("success", "loaded", 0, 0)
                    /\ Finally
                    /\ UNCHANGED <<phaseStatus, i, processed, failed, batch,
                                   pdfBatchData, k, sentLog, batchReqs,
                                   loopEnded>>
       ELSE /\ CatchAndFinally(errorMessage(out))
            /\ UNCHANGED <<workList, phaseStatus, i, processed, failed, batch,
                           pdfBatchData, k, sentLog, batchReqs, loopEnded>>
    /\ serverExact' = TRUE
    /\ serverBounded' = TRUE
    /\ UNCHANGED <<keptVars, jobs, progress, phase, batchSize, jobId>>
    /\ UNCHANGED besidesProc

\* process<Phase>Batches from the answer of a batch request on: the counters
\* and the progress display are updated and the loop goes on.
BatchResponse(out, rp, rf) ==
    /\ pc = "batch"
    /\ <<rp, rf>> \in ReportedCounts(Len(Payload))
    /\ out = "ok" => (rp + rf <= Len(Payload) \/ serverBounded)
    /\ out # "ok" => (rp = 0 /\ rf = 0)
    /\ procEvent' = PEvent("BatchResponse", out)
    /\ serverExact' = (serverExact /\ (out = "ok" => rp + rf = Len(Payload)))
    /\ serverBounded' = (serverBounded /\ (out = "ok" => rp + rf <= Len(Payload)))
    /\ LET np == IF out = "ok" THEN processed + rp ELSE processed
           nf == CASE out = "ok" -> failed + rf
                   [] out = "throw" -> failed + thrownCount(phase, batch, pdfBatchData)
                   [] OTHER -> failed
       IN /\ progress' = updateProgress(np, nf, Len(workList))
          /\ EnterLoop(workList, nextIndex(i, batchSize), np, nf, sentLog,
                       batchReqs - 1)
    /\ UNCHANGED <<keptVars, jobs, phase, batchSize, jobId, workList>>
    /\ UNCHANGED besidesProc

\* The inner loop of processPdfBatches after the PDF at position k: the next
\* PDF is downloaded, or the payload is sent, or (empty payload) the progress
\* is updated and the outer loop goes on.
NextItem(nf, data) ==
    IF k < Len(batch)
    THEN /\ k' = k + 1
         /\ pc' = "download"
         /\ failed' = nf
         /\ pdfBatchData' = data
         /\ UNCHANGED <<i, processed, batch, sentLog, batchReqs, loopEnded,
                        phaseStatus, processingStatus, btnDisabled, progress>>
    ELSE IF data # <<>>
    THEN /\ k' = 0
         /\ pc' = "batch"
         /\ failed' = nf
         /\ pdfBatchData' = data
         /\ sentLog' = LogAppend(sentLog, [at |-> i, items |-> data])
         /\ batchReqs' = batchReqs + 1
         /\ UNCHANGED <<i, processed, batch, loopEnded, phaseStatus,
                        processingStatus, btnDisabled, progress>>
    ELSE /\ progress' = updateProgress(processed, nf, Len(workList))
         /\ EnterLoop(workList, nextIndex(i, batchSize), processed, nf, sentLog,
                      batchReqs)

DownloadOutcomes == {"throw", "notok", "nourl", "url"}

\* processPdfBatches from the answer of /api/s3/download for batch[k] on.
DownloadResponse(out) ==
    /\ pc = "download"
    /\ procEvent' = PEvent("DownloadResponse", out)
    /\ CASE out = "url" ->
              /\ pc' = "fetch"
              /\ UNCHANGED <<i, processed, failed, batch, pdfBatchData, k,
                             sentLog, batchReqs, loopEnded, phaseStatus,
                             processingStatus, btnDisabled, progress>>
         [] out = "throw" -> NextItem(failed + 1, pdfBatchData)
         [] OTHER -> NextItem(failed, pdfBatchData)
    /\ UNCHANGED <<keptVars, jobs, phase, batchSize, jobId, workList,
                   serverExact, serverBounded>>
    /\ UNCHANGED besidesProc

\* processPdfBatches from the answer of the presigned-URL fetch on.
FetchResponse(out) ==
    /\ pc = "fetch"
    /\ procEvent' = PEvent("FetchResponse", out)
    /\ IF out = "throw"
       THEN NextItem(failed + 1, pdfBatchData)
       ELSE NextItem(failed, Append(pdfBatchData, batch[k]))
    /\ UNCHANGED <<keptVars, jobs, phase, batchSize, jobId, workList,
                   serverExact, serverBounded>>
    /\ UNCHANGED besidesProc

\* An iteration of processPdfBatches over an empty slice: it awaits nothing,
\* so the loop runs on without ever yielding to another handler.
Spin ==
    /\ pc = "spin"
    /\ procEvent' = PEvent("Spin", "none")
    /\ progress' = updateProgress(processed, failed, Len(workList))
    /\ EnterLoop(workList, nextIndex(i, batchSize), processed, failed, sentLog,
                 batchReqs)
    /\ UNCHANGED <<keptVars, jobs, phase, batchSize, jobId, workList,
                   serverExact, serverBounded>>
    /\ UNCHANGED besidesProc

\* refreshJobList answered (or thrown): start<Phase>Processing returns.
JobListResponse ==
    /\ pc = "jobs"
    /\ procEvent' = [op |-> "JobListResponse", out |-> "none", at |-> 0,
                     sent |-> 0, chunk |-> 0, processedBefore |-> 0,
                     failedBefore |-> 0]
    /\ pc' = "idle"
    /\ phase' = "none"
    /\ batchSize' = 0
    /\ jobId' = 0
    /\ workList' = <<>>
    /\ i' = 0
    /\ processed' = 0
    /\ failed' = 0
    /\ batch' = <<>>
    /\ pdfBatchData' = <<>>
    /\ k' = 0
    /\ sentLog' = <<>>
    /\ batchReqs' = 0
    /\ serverExact' = TRUE
    /\ serverBounded' = TRUE
    /\ loopEnded' = FALSE
    /\ UNCHANGED <<keptVars, jobs, phaseStatus, processingStatus,
                   btnDisabled, progress>>
    /\ UNCHANGED besidesProc

BatchOutcomes == {"ok", "fail", "throw"}

\* A start answer with success=false may or may not carry an error text.
StartOutcomes == BatchOutcomes \cup {"failbare"}

ProcResponses ==
    \/ \E out \in StartOutcomes : StartResponse(out)
    \/ \E out \in BatchOutcomes, list \in WorkLists(phase) : EnumerateResponse(out, list)
    \/ \E out \in BatchOutcomes, rp \in 0..(MaxN + 1), rf \in 0..(MaxN + 1) : BatchResponse(out, rp, rf)
    \/ \E out \in DownloadOutcomes : DownloadResponse(out)
    \/ \E out \in {"throw", "content"} : FetchResponse(out)
    \/ Spin
    \/ JobListResponse

ProcNext ==
    \/ \E c \in BOOLEAN : checkProcessingApiConfig(c)
    \/ confirmScrapeRunSelection
    \/ \E ph \in Phases, f \in FieldValues : StartPhase(ph, f)
    \/ ProcResponses

\* ------------------------------------------------------------------------
\* File browser: bounds, inputs and pure helpers
\* ------------------------------------------------------------------------
MaxPages == 2         \* a folder listing fills at most MaxPages pages
MaxFolders == 1       \* sub-folders in a listing
MaxToggle == 2        \* files of a folder the user clicks on
MaxLoadReqs == 1      \* folder-contents requests in flight

\* const filesPerPage = 20
filesPerPage == 20

\* File names are two characters long ("z" occurs in no name).
NameChars == <<"a", "A", "b">>

NameOf(j) == <<NameChars[(j % 3) + 1], NameChars[((j \div 3) % 3) + 1]>>

\* A listing as loadFilesInFolder combines it: the folders first, then the
\* files; the j-th entry has key j.
Listing(nf, n) ==
    [j \in 1..n |-> [key |-> j, filename |-> NameOf(j),
                     type |-> IF j <= nf THEN "folder" ELSE "file"]]

\* The folders the server lists: an empty one, one with a single entry, one
\* that fills its pages exactly and one with one entry more than that, each
\* without sub-folders or with MaxFolders of them.
ListingSizes ==
    {0, 1, (MaxPages - 1) * filesPerPage, (MaxPages - 1) * filesPerPage + 1}

Listings ==
    {Listing(Min(nf, n), n) : nf \in {0, MaxFolders}, n \in ListingSizes}

\* The folders of the tree: the root and one folder.
FolderPaths == {"", "docs/"}

\* The folder-contents requests in flight, by the folder they ask for.
IssueLoad(reqs, path) == [reqs EXCEPT ![path] = @ + 1]

AnswerLoad(reqs, path) == [reqs EXCEPT ![path] = @ - 1]

\* What Set.prototype.delete and clear do to a for-of loop that is walking
\* the set: an entry that has left the set is no longer one the iterator has
\* passed, so a key that is added again is met again.
passed(visited, sel) == visited \cap sel

\* What the user types into the search field.
Terms == {<<>>, <<"a">>, <<"A">>, <<"b">>, <<"z">>, <<"A", "b">>}

toLowerCase_Same(s) == s

\* String.prototype.toLowerCase
toLowerCase(s) == [n \in 1..Len(s) |-> IF s[n] = "A" THEN "a" ELSE s[n]]

\* String.prototype.includes
includes(s, t) ==
    \E p \in 0..(Len(s) - Len(t)) : SubSeq(s, p + 1, p + Len(t)) = t

\* The list filterFiles computes from the list it filters and the value of
\* the search field.
applyFilter(files, value) ==
    LET searchTerm == toLowerCase(value)
    IN IF searchTerm = <<>>
       THEN files
       ELSE SelectSeq(files,
                LAMBDA f : includes(toLowerCase(f.filename), searchTerm))

\* Math.ceil(length / filesPerPage)
pageCount_Floor(n) == n \div filesPerPage

pageCount(n) == (n + filesPerPage - 1) \div filesPerPage

\* totalPages after renderFileList: it returns before the assignment when
\* the filtered list is empty.
renderedPages(filtered, tp) ==
    IF Len(filtered) = 0 THEN tp ELSE pageCount(Len(filtered))

\* The entries renderFileList shows.
pageFiles(filtered, cp) ==
    slice(filtered, (cp - 1) * filesPerPage,
          (cp - 1) * filesPerPage + filesPerPage)

selectableFiles_All(filtered) == filtered

\* filteredFiles.filter(f => f.type === 'file')
selectableFiles(filtered) == SelectSeq(filtered, LAMBDA f : f.type = "file")

KeysOf(files) == {files[n].key : n \in 1..Len(files)}

allSelected_Any(filtered, sel) ==
    /\ Len(selectableFiles(filtered)) > 0
    /\ KeysOf(selectableFiles(filtered)) \cap sel # {}

\* updateSelectAllCheckbox
allSelected(filtered, sel) ==
    /\ Len(selectableFiles(filtered)) > 0
    /\ KeysOf(selectableFiles(filtered)) \subseteq sel

\* The guards of previousPage and nextPage.
canGoBack(cp) == cp > 1

canGoOn_Beyond(cp, tp) == cp <= tp

canGoOn(cp, tp) == cp < tp

\* The list filterFiles filters.
filterSource_Shown(all, filtered) == filtered

filterSource(all, filtered) == all

\* The globals filterFiles reads and writes, and what it makes of them.
ListState ==
    [allFiles |-> allFiles, filteredFiles |-> filteredFiles,
     currentPage |-> currentPage, totalPages |-> totalPages]

filterFilesOn(st, value) ==
    LET fl == applyFilter(filterSource(st.allFiles, st.filteredFiles), value)
    IN [allFiles |-> st.allFiles, filteredFiles |-> fl, currentPage |-> 1,
        totalPages |-> renderedPages(fl, st.totalPages)]

\* The files the user clicks on: the first MaxToggle files of the folder,
\* when the shown page lists them.
Clickable ==
    LET af == selectableFiles(allFiles)
    IN {af[n].key : n \in 1..Min(MaxToggle, Len(af))}
          \cap KeysOf(selectableFiles(pageFiles(filteredFiles, currentPage)))

Trail(stage, key) == [stage |-> stage, key |-> key]

\* ------------------------------------------------------------------------
\* File browser actions
\* ------------------------------------------------------------------------
BrowserInit ==
    /\ allFiles = <<>>
    /\ filteredFiles = <<>>
    /\ currentPage = 1
    /\ totalPages = 1
    /\ selectedFiles = {}
    /\ selectAll = FALSE
    /\ loadReqs = 0
    /\ selTrail = Trail("none", 0)
    /\ loadPaths = [path \in FolderPaths |-> 0]
    /\ loadedPath = "none"

\* loadFilesInFolder up to its await (called by selectFolder and by the
\* reloads after an upload, a delete or a move).
loadFilesInFolder ==
    /\ loadReqs < MaxLoadReqs
    /\ loadReqs' = loadReqs + 1
    /\ loadPaths' = IssueLoad(loadPaths, currentFolderPath)
    /\ UNCHANGED <<allFiles, loadedPath, filteredFiles, currentPage,
                   totalPages, selectedFiles, selectAll, selTrail>>
    /\ UNCHANGED besidesBrowser

\* loadFilesInFolder from the answer of its request on; the request that
\* is answered is any of those in flight.
LoadResponse(out, listing) ==
    /\ loadReqs > 0
    /\ loadReqs' = loadReqs - 1
    /\ \E folderPath \in FolderPaths :
          /\ loadPaths[folderPath] > 0
          /\ loadPaths' = AnswerLoad(loadPaths, folderPath)
          /\ loadedPath' = IF out = "ok" THEN folderPath ELSE loadedPath
    /\ IF out = "ok"
       THEN /\ allFiles' = listing
            /\ filteredFiles' = listing
            /\ currentPage' = 1
            /\ selectedFiles' = {}
            /\ totalPages' = renderedPages(listing, totalPages)
            /\ selTrail' = Trail("none", 0)
       ELSE UNCHANGED <<allFiles, filteredFiles, currentPage, selectedFiles,
                        totalPages, selTrail>>
    /\ opVisited' = passed(opVisited, selectedFiles')
    /\ UNCHANGED selectAll
    /\ UNCHANGED besidesSelection

\* filterFiles, run by the search field's debounce timer.
filterFiles(value) ==
    LET st == filterFilesOn(ListState, value)
    IN /\ UNCHANGED <<allFiles, loadedPath, selectedFiles, selectAll,
                      loadReqs, loadPaths>>
       /\ selTrail' = Trail("none", 0)
       /\ filteredFiles' = st.filteredFiles
       /\ currentPage' = st.currentPage
       /\ totalPages' = st.totalPages
       /\ UNCHANGED besidesBrowser

previousPage ==
    /\ IF canGoBack(currentPage)
       THEN /\ currentPage' = currentPage - 1
            /\ totalPages' = renderedPages(filteredFiles, totalPages)
       ELSE UNCHANGED <<currentPage, totalPages>>
    /\ UNCHANGED <<allFiles, loadedPath, filteredFiles, selectedFiles, selectAll,
                   loadReqs, loadPaths, selTrail>>
    /\ UNCHANGED besidesBrowser

nextPage ==
    /\ IF canGoOn(currentPage, totalPages)
       THEN /\ currentPage' = currentPage + 1
            /\ totalPages' = renderedPages(filteredFiles, totalPages)
       ELSE UNCHANGED <<currentPage, totalPages>>
    /\ UNCHANGED <<allFiles, loadedPath, filteredFiles, selectedFiles, selectAll,
                   loadReqs, loadPaths, selTrail>>
    /\ UNCHANGED besidesBrowser

\* toggleFileSelection for a file of the shown page.
toggleFileSelection(filePath) ==
    /\ filePath \in Clickable
    /\ selectedFiles' = IF filePath \in selectedFiles
                        THEN selectedFiles \ {filePath}
                        ELSE selectedFiles \cup {filePath}
    /\ totalPages' = renderedPages(filteredFiles, totalPages)
    /\ selectAll' = allSelected(filteredFiles, selectedFiles')
    /\ selTrail' =
          IF selTrail.stage = "all" /\ filePath \in selectedFiles
          THEN Trail("off", filePath)
          ELSE IF selTrail = Trail("off", filePath)
          THEN Trail("on", filePath)
          ELSE Trail("none", 0)
    /\ opVisited' = passed(opVisited, selectedFiles')
    /\ UNCHANGED <<allFiles, loadedPath, filteredFiles, currentPage,
                   loadReqs, loadPaths>>
    /\ UNCHANGED besidesSelection

\* toggleSelectAll: the click has flipped the checkbox before the handler
\* reads it.
toggleSelectAll ==
    /\ selectAll' = ~selectAll
    /\ selectedFiles' = IF selectAll'
                        THEN selectedFiles
                                \cup KeysOf(selectableFiles(filteredFiles))
                        ELSE {}
    /\ totalPages' = renderedPages(filteredFiles, totalPages)
    /\ selTrail' = IF selectAll' THEN Trail("all", 0) ELSE Trail("none", 0)
    /\ opVisited' = passed(opVisited, selectedFiles')
    /\ UNCHANGED <<allFiles, loadedPath, filteredFiles, currentPage,
                   loadReqs, loadPaths>>
    /\ UNCHANGED besidesSelection

BrowserNext ==
    \/ loadFilesInFolder
    \/ \E out \in CallOutcomes, listing \in Listings : LoadResponse(out, listing)
    \/ \E value \in Terms : filterFiles(value)
    \/ previousPage
    \/ nextPage
    \/ \E filePath \in Clickable : toggleFileSelection(filePath)
    \/ toggleSelectAll

\* ------------------------------------------------------------------------
\* The results list of a phase
\* ------------------------------------------------------------------------
MaxChunks == 12       \* batch answers one loop handles
MaxResults == 6       \* entries of result.results in one answer

\* `resultsListEl.children.length < 50` and `result.results.slice(0, 5)` of
\* processEmbeddingsBatches.
ResultsListLimit == 50
ResultsShown == 5

\* The length of the results list after a successful batch answer carrying n
\* results: the embeddings loop appends the first five while the list is
\* shorter than 50, the metadata and PDF loops append every result.
appendResults(ph, len, n) ==
    IF ph = "embeddings"
    THEN IF len < ResultsListLimit THEN len + Min(n, ResultsShown) ELSE len
    ELSE len + n

ResultsInit ==
    /\ resultsPhase = "none"
    /\ resultsLen = 0
    /\ resultsChunks = 0

\* The head of process<Phase>Batches: `resultsListEl.innerHTML = ''`.
showResults(ph) ==
    /\ resultsPhase' = ph
    /\ resultsLen' = 0
    /\ resultsChunks' = 0
    /\ UNCHANGED besidesResults

\* A batch answer with success=true and n results is handled.
ResultsResponse(n) ==
    /\ resultsPhase # "none"
    /\ resultsChunks < MaxChunks
    /\ resultsChunks' = resultsChunks + 1
    /\ resultsLen' = appendResults(resultsPhase, resultsLen, n)
    /\ UNCHANGED resultsPhase
    /\ UNCHANGED besidesResults

ResultsNext ==
    \/ \E ph \in Phases : showResults(ph)
    \/ \E n \in 0..MaxResults : ResultsResponse(n)

\* ------------------------------------------------------------------------
\* File operations: bounds, inputs and pure helpers
\* ------------------------------------------------------------------------
MaxUpload == 2        \* files picked for one upload

\* What the user types into a folder-name field.
FolderNames == {<<>>, <<" ">>, <<" ", " ">>, <<"x">>, <<" ", "x", " ">>}

trim_None(s) == s

\* String.prototype.trim
trim(s) ==
    LET inked == {n \in 1..Len(s) : s[n] # " "}
    IN IF inked = {}
       THEN <<>>
       ELSE SubSeq(s, CHOOSE n \in inked : \A m \in inked : n <= m,
                      CHOOSE n \in inked : \A m \in inked : n >= m)

\* The folder listings the server returns while file operations are followed:
\* an empty folder and one whose files can all be clicked.
OpsListings == {Listing(0, n) : n \in {0, MaxToggle}}

\* What an upload request can come back with: ok, a non-ok answer with a
\* JSON body, a non-ok answer whose body is not JSON (response.json() then
\* throws), or a thrown request.
UploadOutcomes == CallOutcomes \cup {"unreadable"}

FBanner(type, text, n) == [type |-> type, text |-> text, count |-> n]

countAfter_Always(count, out) == count + 1

\* `if (response.ok) { count++; }`
countAfter(count, out) == IF out = "ok" THEN count + 1 ELSE count

\* The keys of selectedFiles a for-of loop has still to take.
opRest == selectedFiles \ opVisited

\* The locals of a handler that has returned.
NoOperation ==
    /\ opName' = "none"
    /\ opPc' = "idle"
    /\ opReqs' = 0
    /\ opTotal' = 0
    /\ uploadIndex' = 0
    /\ opVisited' = {}
    /\ opCount' = 0
    /\ opAtStart' = {}
    /\ opSent' = {}

opLocals == <<opName, opPc, opReqs, opTotal, uploadIndex, opVisited, opCount,
              opAtStart, opSent>>

listVars == <<allFiles, filteredFiles, currentPage, totalPages, selectAll,
              loadedPath>>

\* `await loadFilesInFolder(currentFolderPath)` at the end of a handler: the
\* folder-contents request is sent and the handler waits for the load.
Reload ==
    /\ loadReqs < MaxLoadReqs
    /\ loadReqs' = loadReqs + 1
    /\ loadPaths' = IssueLoad(loadPaths, currentFolderPath)
    /\ opPc' = "reload"
    /\ opReqs' = 0

\* ------------------------------------------------------------------------
\* File operation actions.  One operation is followed at a time.
\* ------------------------------------------------------------------------
FileOpsInit ==
    /\ currentFolderPath = ""
    /\ moveDestinationPath = "null"
    /\ fileStatus = FBanner("none", "none", 0)
    /\ opName = "none"
    /\ opPc = "idle"
    /\ opReqs = 0
    /\ opTotal = 0
    /\ uploadIndex = 0
    /\ opVisited = {}
    /\ opCount = 0
    /\ opAtStart = {}
    /\ opSent = {}

\* selectFolder: the folder becomes the current one and its contents are
\* requested.
selectFolder(path) ==
    /\ currentFolderPath' = path
    /\ loadReqs' = loadReqs + 1
    /\ loadPaths' = IssueLoad(loadPaths, path)
    /\ UNCHANGED <<listVars, selectedFiles, selTrail>>
    /\ UNCHANGED <<moveDestinationPath, fileStatus, opLocals>>
    /\ UNCHANGED besidesFiles

\* handleFileUpload with n files picked, up to its first await.
handleFileUpload(n) ==
    /\ opPc = "idle"
    /\ IF n = 0
       THEN UNCHANGED <<fileStatus, opLocals>>
       ELSE /\ fileStatus' = FBanner("info", "Uploading", n)
            /\ opName' = "upload"
            /\ opPc' = "request"
            /\ opReqs' = 1
            /\ opTotal' = n
            /\ uploadIndex' = 0
            /\ opCount' = 0
            /\ opAtStart' = {currentFolderPath}
            /\ opSent' = {currentFolderPath}
            /\ UNCHANGED opVisited
    /\ UNCHANGED <<currentFolderPath, moveDestinationPath>>
    /\ UNCHANGED browserVars
    /\ UNCHANGED besidesFiles

\* handleFileUpload from the answer of the upload request of files[i] on.
\* The fetch is inside the handler's one try block, so a request that throws
\* (or a non-ok answer whose body cannot be parsed) leaves the loop for the
\* catch block.
UploadResponse(out) ==
    /\ opName = "upload"
    /\ opPc = "request"
    /\ IF out \in {"throw", "unreadable"}
       THEN /\ fileStatus' = FBanner("error", "Upload failed", 0)
            /\ NoOperation
            /\ UNCHANGED <<loadReqs, loadPaths>>
       ELSE /\ opCount' = countAfter(opCount, out)
            /\ uploadIndex' = uploadIndex + 1
            /\ UNCHANGED <<opName, opAtStart, opTotal, opVisited>>
            /\ IF uploadIndex' < opTotal
               THEN /\ opSent' = opSent \cup {currentFolderPath}
                    /\ UNCHANGED <<fileStatus, opPc, opReqs, loadReqs,
                                   loadPaths>>
               ELSE /\ fileStatus' =
                          FBanner("success", "Successfully uploaded", opCount')
                    /\ Reload
                    /\ UNCHANGED opSent
    /\ UNCHANGED <<currentFolderPath, moveDestinationPath>>
    /\ UNCHANGED <<listVars, selectedFiles, selTrail>>
    /\ UNCHANGED besidesFiles

\* The head of a for-of loop over selectedFiles: the next key is taken and
\* its request sent.  (A Set is walked in insertion order, which the model
\* does not keep: any key not yet taken may be the next.)
NextKey ==
    /\ opRest # {}
    /\ \E key \in opRest : /\ opVisited' = opVisited \cup {key}
                            /\ opSent' = opSent \cup {key}
    /\ opPc' = "request"
    /\ opReqs' = 1

\* downloadSelectedFiles up to its first await.
downloadSelectedFiles ==
    /\ opPc = "idle"
    /\ IF selectedFiles = {}
       THEN /\ fileStatus' =
                  FBanner("warning", "Please select files to download", 0)
            /\ UNCHANGED opLocals
       ELSE /\ opName' = "download"
            /\ opAtStart' = selectedFiles
            /\ NextKey
            /\ UNCHANGED <<fileStatus, opTotal, uploadIndex, opCount>>
    /\ UNCHANGED <<currentFolderPath, moveDestinationPath>>
    /\ UNCHANGED browserVars
    /\ UNCHANGED besidesFiles

\* downloadSelectedFiles from the answer of a key's request on.
DownloadFileResponse(out) ==
    /\ opName = "download"
    /\ opPc = "request"
    /\ IF opRest # {}
       THEN /\ NextKey
            /\ UNCHANGED <<fileStatus, opName, opAtStart, opTotal,
                           uploadIndex, opCount>>
       ELSE /\ fileStatus' = FBanner("success", "Downloaded",
                                     Cardinality(selectedFiles))
            /\ NoOperation
    /\ UNCHANGED <<currentFolderPath, moveDestinationPath>>
    /\ UNCHANGED browserVars
    /\ UNCHANGED besidesFiles

\* deleteSelectedFiles up to its first await; confirmed is the user's answer
\* to the confirm dialog.
deleteSelectedFiles(confirmed) ==
    /\ opPc = "idle"
    /\ IF selectedFiles = {}
       THEN /\ fileStatus' =
                  FBanner("warning", "Please select files to delete", 0)
            /\ UNCHANGED opLocals
       ELSE IF ~confirmed
       THEN UNCHANGED <<fileStatus, opLocals>>
       ELSE /\ opName' = "delete"
            /\ opAtStart' = selectedFiles
            /\ opCount' = 0
            /\ NextKey
            /\ UNCHANGED <<fileStatus, opTotal, uploadIndex>>
    /\ UNCHANGED <<currentFolderPath, moveDestinationPath>>
    /\ UNCHANGED browserVars
    /\ UNCHANGED besidesFiles

\* The end of the loops of deleteSelectedFiles and confirmMoveFiles: the
\* count is shown, the selection cleared and the folder reloaded.
LoopDone(text, count) ==
    /\ fileStatus' = FBanner("success", text, count)
    /\ selectedFiles' = {}
    /\ selTrail' = Trail("none", 0)
    /\ Reload

\* deleteSelectedFiles from the answer of a key's DELETE on.
DeleteResponse(out) ==
    /\ opName = "delete"
    /\ opPc = "request"
    /\ opCount' = countAfter(opCount, out)
    /\ IF opRest # {}
       THEN /\ NextKey
            /\ UNCHANGED <<fileStatus, selectedFiles, selTrail, loadReqs,
                           loadPaths>>
       ELSE /\ LoopDone("Deleted", opCount')
            /\ UNCHANGED <<opVisited, opSent>>
    /\ UNCHANGED <<opName, opAtStart, opTotal, uploadIndex>>
    /\ UNCHANGED <<currentFolderPath, moveDestinationPath>>
    /\ UNCHANGED listVars
    /\ UNCHANGED besidesFiles

\* moveSelectedFiles: the move dialog opens with no destination chosen.
moveSelectedFiles ==
    /\ opPc = "idle"
    /\ IF selectedFiles = {}
       THEN /\ fileStatus' =
                  FBanner("warning", "Please select files to move", 0)
            /\ UNCHANGED moveDestinationPath
       ELSE /\ moveDestinationPath' = "null"
            /\ UNCHANGED fileStatus
    /\ UNCHANGED <<currentFolderPath, opLocals>>
    /\ UNCHANGED browserVars
    /\ UNCHANGED besidesFiles

\* selectMoveDestination: a folder of the dialog's tree is clicked.
selectMoveDestination(path) ==
    /\ opPc = "idle"
    /\ moveDestinationPath' = path
    /\ UNCHANGED <<currentFolderPath, fileStatus, opLocals>>
    /\ UNCHANGED browserVars
    /\ UNCHANGED besidesFiles

\* confirmMoveFiles up to its first await.
confirmMoveFiles ==
    /\ opPc = "idle"
    /\ IF moveDestinationPath = "null"
       THEN /\ fileStatus' =
                  FBanner("error", "Please select a destination folder", 0)
            /\ UNCHANGED <<opLocals, selectedFiles, selTrail, loadReqs,
                           loadPaths>>
       ELSE /\ opName' = "move"
            /\ opAtStart' = selectedFiles
            /\ opCount' = 0
            /\ UNCHANGED <<opTotal, uploadIndex>>
            /\ IF opRest # {}
               THEN /\ NextKey
                    /\ UNCHANGED <<fileStatus, selectedFiles, selTrail,
                                   loadReqs, loadPaths>>
               ELSE /\ LoopDone("Moved", 0)
                    /\ UNCHANGED <<opVisited, opSent>>
    /\ UNCHANGED <<currentFolderPath, moveDestinationPath>>
    /\ UNCHANGED listVars
    /\ UNCHANGED besidesFiles

\* confirmMoveFiles from the answer of a key's move request on.
MoveResponse(out) ==
    /\ opName = "move"
    /\ opPc = "request"
    /\ opCount' = countAfter(opCount, out)
    /\ IF opRest # {}
       THEN /\ NextKey
            /\ UNCHANGED <<fileStatus, selectedFiles, selTrail, loadReqs,
                           loadPaths>>
       ELSE /\ LoopDone("Moved", opCount')
            /\ UNCHANGED <<opVisited, opSent>>
    /\ UNCHANGED <<opName, opAtStart, opTotal, uploadIndex>>
    /\ UNCHANGED <<currentFolderPath, moveDestinationPath>>
    /\ UNCHANGED listVars
    /\ UNCHANGED besidesFiles

\* The folder-name check of confirmCreateFolder and createFolderForMove and
\* the request that follows it.
CreateFolder(name, handler) ==
    IF trim(name) = <<>>
    THEN /\ fileStatus' = FBanner("error", "Please enter a folder name", 0)
         /\ UNCHANGED opLocals
    ELSE /\ opName' = handler
         /\ opPc' = "request"
         /\ opReqs' = 1
         /\ UNCHANGED <<fileStatus, opTotal, uploadIndex, opVisited, opSent,
                        opCount, opAtStart>>

\* confirmCreateFolder up to its await.
confirmCreateFolder(name) ==
    /\ opPc = "idle"
    /\ CreateFolder(name, "createFolder")
    /\ UNCHANGED <<currentFolderPath, moveDestinationPath>>
    /\ UNCHANGED browserVars
    /\ UNCHANGED besidesFiles

\* confirmCreateFolder from the answer of its POST on (the folder tree is
\* loaded again before the folder's contents; only the tree display depends
\* on that answer).
CreateFolderResponse(out) ==
    /\ opName = "createFolder"
    /\ opPc = "request"
    /\ IF out = "ok"
       THEN /\ fileStatus' = FBanner("success", "Folder created", 0)
            /\ Reload
            /\ UNCHANGED <<opName, opAtStart, opTotal, uploadIndex,
                           opVisited, opSent, opCount>>
       ELSE /\ fileStatus' = FBanner("error", "Failed to create folder", 0)
            /\ NoOperation
            /\ UNCHANGED <<loadReqs, loadPaths>>
    /\ UNCHANGED <<currentFolderPath, moveDestinationPath>>
    /\ UNCHANGED <<listVars, selectedFiles, selTrail>>
    /\ UNCHANGED besidesFiles

\* createFolderForMove up to its await.
createFolderForMove(name) ==
    /\ opPc = "idle"
    /\ CreateFolder(name, "createFolderForMove")
    /\ UNCHANGED <<currentFolderPath, moveDestinationPath>>
    /\ UNCHANGED browserVars
    /\ UNCHANGED besidesFiles

\* createFolderForMove from the answer of its POST on: a non-ok answer is
\* passed over in silence.
CreateFolderForMoveResponse(out) ==
    /\ opName = "createFolderForMove"
    /\ opPc = "request"
    /\ fileStatus' =
          CASE out = "ok" -> FBanner("success", "Folder created", 0)
            [] out = "throw" -> FBanner("error", "Failed to create folder", 0)
            [] OTHER -> fileStatus
    /\ NoOperation
    /\ UNCHANGED <<currentFolderPath, moveDestinationPath>>
    /\ UNCHANGED browserVars
    /\ UNCHANGED besidesFiles

\* The load a handler awaited at its end has been answered: it returns.
OperationReturns ==
    /\ opPc = "reload"
    /\ loadReqs = 0
    /\ NoOperation
    /\ UNCHANGED <<currentFolderPath, moveDestinationPath, fileStatus>>
    /\ UNCHANGED browserVars
    /\ UNCHANGED besidesFiles

\* The user's clicks come between operations; the answers come when they
\* come.
FileOpsNext ==
    \/ \E path \in FolderPaths :
          opPc = "idle" /\ loadReqs < MaxLoadReqs /\ selectFolder(path)
    \/ \E out \in CallOutcomes, listing \in OpsListings : LoadResponse(out, listing)
    \/ \E filePath \in Clickable : opPc = "idle" /\ toggleFileSelection(filePath)
    \/ \E n \in 0..MaxUpload : handleFileUpload(n)
    \/ \E out \in UploadOutcomes : UploadResponse(out)
    \/ downloadSelectedFiles
    \/ \E out \in CallOutcomes : DownloadFileResponse(out)
    \/ \E confirmed \in BOOLEAN : deleteSelectedFiles(confirmed)
    \/ \E out \in CallOutcomes : DeleteResponse(out)
    \/ moveSelectedFiles
    \/ \E path \in FolderPaths : selectMoveDestination(path)
    \/ confirmMoveFiles
    \/ \E out \in CallOutcomes : MoveResponse(out)
    \/ \E name \in FolderNames : confirmCreateFolder(name)
    \/ \E out \in CallOutcomes : CreateFolderResponse(out)
    \/ \E name \in FolderNames : createFolderForMove(name)
    \/ \E out \in CallOutcomes : CreateFolderForMoveResponse(out)
    \/ OperationReturns

\* ------------------------------------------------------------------------
\* The user goes on clicking while an upload or a delete awaits an answer
\* ------------------------------------------------------------------------
MaxRaceLoads == 2     \* folder-contents requests in flight at once
MaxRaceCount == 2     \* DELETE requests one loop gets answered ok (a key
                      \* that is toggled off and on is met again, so the
                      \* loop has no bound of its own)

\* Nothing disables the folder tree, the file rows or the select-all
\* checkbox while a handler is suspended at an await.
RaceNext ==
    \/ \E path \in FolderPaths :
          loadReqs < MaxRaceLoads /\ selectFolder(path)
    \/ \E out \in CallOutcomes, listing \in OpsListings : LoadResponse(out, listing)
    \/ \E filePath \in Clickable : toggleFileSelection(filePath)
    \/ toggleSelectAll
    \/ \E n \in 0..MaxUpload : handleFileUpload(n)
    \/ \E out \in UploadOutcomes : UploadResponse(out)
    \/ \E confirmed \in BOOLEAN : deleteSelectedFiles(confirmed)
    \/ \E out \in CallOutcomes :
          countAfter(opCount, out) <= MaxRaceCount /\ DeleteResponse(out)
    \/ OperationReturns

\* ------------------------------------------------------------------------
\* Specifications
\* ------------------------------------------------------------------------
Init == AdminInit /\ ProcInit /\ BrowserInit /\ ResultsInit /\ FileOpsInit

\* The admin tab's poller.
PollerSpec == Init /\ [][AdminNext]_vars

\* The processing tab's phases.
BatchSpec == Init /\ [][ProcNext]_vars

\* The processing tab when every request is eventually answered (or throws)
\* and the page's thread keeps running.
BatchFairSpec == BatchSpec /\ WF_vars(ProcResponses)

\* The file browser.
BrowserSpec == Init /\ [][BrowserNext]_vars

\* The results list of a phase's batch loop.
ResultsSpec == Init /\ [][ResultsNext]_vars

\* The file operations of the browser.
FileOpsSpec == Init /\ [][FileOpsNext]_vars

\* The file browser with the user's clicks and the answers in any order.
RaceSpec == Init /\ [][RaceNext]_vars

\* ------------------------------------------------------------------------
\* Properties of the job poller (checked under PollerSpec)
\* ------------------------------------------------------------------------

\* C1: in every reachable state at most one poll timer is live, and it is
\* the one adminState.pollingInterval holds; right after startJobPolling has
\* run exactly one timer is live, also when one was live before the call.
C1_AtMostOneTimer ==
    /\ Cardinality(activeTimers) <= 1
    /\ activeTimers \subseteq {pollingInterval}
    /\ (adminEvent.op = "RefreshResponse" /\ adminEvent.out = "ok")
          => Cardinality(activeTimers) = 1

\* startJobPolling has just run while the timer of an earlier call was live.
C1_Witness ==
    /\ adminEvent.op = "RefreshResponse"
    /\ adminEvent.out = "ok"
    /\ adminEvent.prev # 0
    /\ activeTimers = {pollingInterval}
    /\ pollingInterval # adminEvent.prev

\* C2 as stated: once the DELETE of cancelCurrentJob has been answered or
\* has thrown, the poll timer is stopped, whatever the outcome.
C2_StoppedWhateverOutcome ==
    adminEvent.op = "CancelResponse"
       => (pollingInterval = 0 /\ activeTimers = {})

\* C2 amended: cancelCurrentJob stops the poll timer (and shows "Job
\* cancelled") only when the DELETE is answered ok with success=true; when
\* the DELETE is rejected or throws it shows an error and leaves the timer
\* handle and the live timers as they were.
C2_StoppedOnlyOnSuccess ==
    adminEvent.op = "CancelResponse"
       => IF adminEvent.out = "ok"
          THEN /\ pollingInterval = 0
               /\ activeTimers = {}
               /\ adminStatus = Banner("success", "Job cancelled")
          ELSE /\ pollingInterval = adminEvent.prev
               /\ activeTimers = {adminEvent.prev} \ {0}
               /\ adminStatus.type = "error"

\* A DELETE was rejected or threw while the timer was live, and it still is.
C2_Witness ==
    /\ adminEvent.op = "CancelResponse"
    /\ adminEvent.out \in {"rejected", "throw"}
    /\ adminEvent.prev # 0
    /\ pollingInterval \in activeTimers

\* C3: after a status poll was answered with no active job, or with a job
\* whose status is completed, failed or cancelled, no poll timer is set or
\* live; and stopJobPolling applied twice gives the state it gives applied
\* once (in particular it changes nothing when no timer is set).
C3_TerminalStopsTimer ==
    /\ (/\ adminEvent.op = "checkCurrentJob"
        /\ adminEvent.out \in TerminalStatuses \cup {"nojob"})
          => (pollingInterval = 0 /\ activeTimers = {})
    /\ stopJobPolling(stopJobPolling(PollerState)) = stopJobPolling(PollerState)
    /\ pollingInterval = 0 => stopJobPolling(PollerState) = PollerState

\* A poll answered "completed" has stopped a timer that was live.
C3_Witness ==
    /\ adminEvent.op = "checkCurrentJob"
    /\ adminEvent.out = "completed"
    /\ adminEvent.prev # 0
    /\ pollingInterval = 0
    /\ activeTimers = {}

\* C4 as stated: at most one status request issued by the poller (by
\* startJobPolling's immediate poll or by a tick of its timer) is in flight.
C4_OnePollInFlight ==
    InFlight(statusReqs) - statusReqs[0] <= 1

\* ------------------------------------------------------------------------
\* Properties of the batch loops (checked under BatchSpec / BatchFairSpec)
\* ------------------------------------------------------------------------
Ceil(n, b) == (n + b - 1) \div b

\* The m-th contiguous chunk of batchSize items of the work list.
ChunkAt(m) ==
    SubSeq(workList, (m - 1) * batchSize + 1, Min(m * batchSize, Len(workList)))

Range(s) == {s[n] : n \in 1..Len(s)}

\* a keeps some of the items of b, in b's order (the items of a work list
\* are distinct and ascending).
IsSubSeq(a, b) ==
    /\ Range(a) \subseteq Range(b)
    /\ \A x, y \in 1..Len(a) : x < y => a[x] < a[y]

\* C5 as stated: with batchSize >= 1, when the loop of any phase has ended
\* it has sent exactly ceil(N/B) batch requests, the m-th carrying the m-th
\* contiguous chunk of the work list.
C5_CeilRequestsEveryPhase ==
    (loopEnded /\ batchSize >= 1)
       => /\ Len(sentLog) = Ceil(Len(workList), batchSize)
          /\ \A m \in 1..Len(sentLog) : sentLog[m].items = ChunkAt(m)

\* C5 amended: with batchSize >= 1, the metadata and embeddings loops send
\* exactly ceil(N/B) batch requests, the m-th carrying the m-th contiguous
\* chunk; the PDF loop sends at most ceil(N/B), one for each chunk of which at
\* least one PDF's content was fetched, carrying only those PDFs, in order.
C5_CeilRequests ==
    (loopEnded /\ batchSize >= 1)
       => IF phase # "pdf"
          THEN /\ Len(sentLog) = Ceil(Len(workList), batchSize)
               /\ \A m \in 1..Len(sentLog) :
                     /\ sentLog[m].items = ChunkAt(m)
                     /\ sentLog[m].at = (m - 1) * batchSize
          ELSE /\ Len(sentLog) <= Ceil(Len(workList), batchSize)
               /\ \A m \in 1..Len(sentLog) :
                     /\ sentLog[m].items # <<>>
                     /\ sentLog[m].at % batchSize = 0
                     /\ sentLog[m].at < Len(workList)
                     /\ IsSubSeq(sentLog[m].items,
                                 ChunkAt(sentLog[m].at \div batchSize + 1))
                     /\ m > 1 => sentLog[m - 1].at < sentLog[m].at

\* A PDF run over 3 PDFs in chunks of 2 has ended having sent one request
\* only, and that one without one of its chunk's PDFs.
C5_Witness ==
    /\ loopEnded
    /\ phase = "pdf"
    /\ batchSize = 2
    /\ Len(workList) = 3
    /\ Len(sentLog) = 1
    /\ Len(sentLog[1].items) = 1

\* C6: when the loop has ended and every successful answer reported
\* processed + failed equal to the number of items sent, processed + failed
\* is the length of the work list.
C6_CountsAddUp ==
    (loopEnded /\ batchSize >= 1 /\ serverExact)
       => processed + failed = Len(workList)

InLoop == pc \in {"batch", "download", "fetch", "spin"} \/ loopEnded

LoopWentOn ==
    /\ i = Max(procEvent.at + batchSize, 0 - IndexFloor)
    /\ processed = procEvent.processedBefore
    /\ IF i < Len(workList)
       THEN /\ ~loopEnded
            /\ batch = slice(workList, i, i + batchSize)
            /\ pc \in {"batch", "download", "spin"}
            /\ (pc = "batch" /\ batchSize >= 1)
                  => sentLog[Len(sentLog)] = [at |-> i, items |-> batch]
       ELSE loopEnded

C9_Terminates == (pc # "idle") ~> (pc = "idle")

\* C10: when the loop has ended the phase is marked complete and the summary
\* with the processed and failed counts is shown as a success message,
\* whatever the counts (until the user's selecting a scrape run replaces the
\* banner).
C10_MarkedComplete ==
    loopEnded
       => /\ phaseStatus[phase] = "complete"
          /\ \/ processingStatus = [type |-> "success", text |-> "complete",
                                      processed |-> processed,
                                      failed |-> failed]
             \/ processingStatus.text = "Scrape run selected"

\* A loop has ended with every item failed and none processed, and the
\* summary is shown as a success.
C10_Witness ==
    /\ loopEnded
    /\ procEvent.op = "BatchResponse"
    /\ procEvent.out = "throw"
    /\ processed = 0
    /\ failed = Len(workList)
    /\ phaseStatus[phase] = "complete"
    /\ processingStatus.type = "success"
    /\ processingStatus.text = "complete"
    /\ processingStatus.failed = failed

\* ------------------------------------------------------------------------
\* Properties of the phase start handlers and of the PDF and batch loops
\* (checked under BatchSpec)
\* ------------------------------------------------------------------------

\* What a start handler that returns at one of its precondition checks
\* leaves behind: a banner of the given kind, no request awaited, and the
\* job state, the button, the progress display and the run untouched.
Refused(type) ==
    /\ pc' = "idle"
    /\ processingStatus'.type = type
    /\ UNCHANGED <<configVars, jobs, jobId, phaseStatus, btnDisabled, progress,
                   phase, workList, sentLog, batchReqs, runs>>

\* C11: a phase start invoked while the API is not marked configured shows
\* an error, and one of the metadata or PDF phase invoked while no scrape
\* run is selected shows a warning; either way the handler returns without
\* issuing a request (none is awaited or logged) and changes no job state.
C11_RefusedStartDoesNothing ==
    [][\A ph \in Phases, f \in FieldValues :
          StartPhase(ph, f)
             => /\ ~apiConfigured => Refused("error")
                /\ (apiConfigured /\ ph # "embeddings"
                      /\ currentScrapeRunPath = "") => Refused("warning")]_vars

\* The metadata or PDF phase was started with the API configured and no
\* scrape run selected, and the handler has returned with the warning.
C11_Witness ==
    /\ procEvent.op = "StartPhase"
    /\ procEvent.out = "noScrapeRun"
    /\ apiConfigured
    /\ currentScrapeRunPath = ""
    /\ pc = "idle"
    /\ processingStatus = PBanner("warning", "select a scrape run", 0, 0)

\* C12: when the start request is answered success=false the handler shows
\* the error (the server's text when the answer carries one), goes straight
\* to its finally block without an enumerate or batch request, and leaves the
\* phase's stored job id and its status label as they were; from the finally
\* block the handler only returns.
C12_RejectedStartAborts ==
    [][/\ \A out \in {"fail", "failbare"} :
             StartResponse(out)
                => /\ pc' = "jobs"
                   /\ processingStatus'.type = "error"
                   /\ out = "fail" => processingStatus'.text = "server error"
                   /\ UNCHANGED <<jobs, jobId, phaseStatus, workList, sentLog,
                                  batchReqs>>
                   /\ sentLog = <<>>
                   /\ batchReqs = 0
       /\ pc = "jobs" => pc' \in {"jobs", "idle"}]_vars

\* A start request was answered success=false with an error text: the phase
\* is in its finally block, unmarked, with no job id stored and the button
\* enabled again.
C12_Witness ==
    /\ procEvent.op = "StartResponse"
    /\ procEvent.out = "fail"
    /\ pc = "jobs"
    /\ jobs[phase] = 0
    /\ phaseStatus[phase] = "pending"
    /\ processingStatus = PBanner("error", "server error", 0, 0)
    /\ phase \notin btnDisabled

\* C13 as stated: in the PDF phase every failed content fetch (the download
\* call throws, answers non-ok or without a url, or the presigned-URL fetch
\* throws) adds one to failed at once and leaves the PDF out of the payload.
C13_FetchFailureCounted ==
    (\/ procEvent.op = "DownloadResponse" /\ procEvent.out # "url"
     \/ procEvent.op = "FetchResponse" /\ procEvent.out = "throw")
       => /\ failed = procEvent.failedBefore + 1
          /\ pc \in {"download", "batch"}
                => Len(pdfBatchData) = procEvent.sent

\* C15: at most one batch request of a run awaits its answer, and one does
\* exactly while the loop is suspended at its batch request; with
\* batchSize >= 1 the requests of the run were sent at strictly ascending
\* loop indices and carry the work list's items in the work list's order.
C15_OneBatchInFlight ==
    /\ batchReqs <= 1
    /\ batchReqs = 1 <=> pc = "batch"
    /\ batchSize >= 1
          => \A m \in 2..Len(sentLog) :
                /\ sentLog[m - 1].at < sentLog[m].at
                /\ \A x \in Range(sentLog[m - 1].items),
                      y \in Range(sentLog[m].items) : x < y

\* The answer of one batch request has been handled and the request for the
\* next chunk is the only one awaited.
C15_Witness ==
    /\ procEvent.op = "BatchResponse"
    /\ pc = "batch"
    /\ batchReqs = 1
    /\ Len(sentLog) = 2
    /\ sentLog[1].items # <<>>
    /\ sentLog[2].items # <<>>

\* ------------------------------------------------------------------------
\* Properties of the results list (checked under ResultsSpec)
\* ------------------------------------------------------------------------

\* The longest the embeddings list gets: 49 entries and five more.
ResultsLogBound == ResultsListLimit - 1 + ResultsShown

\* C14 as stated: in every phase the results list never holds more entries
\* than a fixed bound that does not depend on the number of chunks handled
\* (the bound the embeddings loop keeps, the largest any loop enforces).
C14_ResultsLogCapped == resultsLen <= ResultsLogBound

\* ------------------------------------------------------------------------
\* Properties of the file browser (checked under BrowserSpec)
\* ------------------------------------------------------------------------

\* C16 as stated: totalPages is ceil(M/20) for the number M of filtered
\* entries, in every reachable state.
C16_TotalPagesIsCeil ==
    totalPages = Ceil(Len(filteredFiles), filesPerPage)

\* C16 amended: whenever the filtered list is not empty totalPages is
\* ceil(M/20); a step that leaves the filtered list empty leaves totalPages at
\* the value it had (1 when the page is opened), which is never below 1.
C16_TotalPagesIsCeilUnlessEmpty ==
    /\ [](/\ Len(filteredFiles) > 0
                => totalPages = Ceil(Len(filteredFiles), filesPerPage)
          /\ totalPages >= 1)
    /\ [][Len(filteredFiles') = 0 => totalPages' = totalPages]_vars

\* A folder of 21 entries is listed unfiltered on two pages and the second
\* page is shown.
C16_Witness ==
    /\ Len(filteredFiles) = filesPerPage + 1
    /\ totalPages = 2
    /\ currentPage = 2

\* C17: currentPage is always within 1..totalPages; previousPage on page 1
\* and nextPage on the last page change nothing, and neither of the two ever
\* issues a folder-contents request.
C17_PageWithinBounds ==
    /\ [](currentPage \in 1..totalPages)
    /\ [][/\ (previousPage /\ currentPage = 1) => UNCHANGED vars
          /\ (nextPage /\ currentPage = totalPages) => UNCHANGED vars
          /\ (previousPage \/ nextPage)
                => UNCHANGED <<loadReqs, allFiles, filteredFiles>>]_vars

\* The last of several pages is shown, with a file selected on it or before.
C17_Witness ==
    /\ totalPages > 1
    /\ currentPage = totalPages
    /\ Len(filteredFiles) > filesPerPage
    /\ selectedFiles # {}

\* C18 as stated: when a folder-contents request has been answered, whatever
\* the answer, currentPage is 1 and no file is selected.
C18_LoadResets ==
    [][\A out \in CallOutcomes, listing \in Listings :
          LoadResponse(out, listing)
             => (currentPage' = 1 /\ selectedFiles' = {})]_vars

\* C19: filterFiles run twice with the same search value leaves the list
\* state it leaves when run once; run with an empty value after any other
\* value (in any state reached by loads and filters) it makes the filtered
\* list the loaded list, in the same order; and what a run yields is the
\* loaded list filtered by its value, whatever was filtered before.
C19_FilterIdempotent ==
    \A t \in Terms :
       LET once == filterFilesOn(ListState, t)
       IN /\ filterFilesOn(once, t) = once
          /\ once.filteredFiles = applyFilter(allFiles, t)
          /\ filterFilesOn(once, <<>>).filteredFiles = allFiles

\* A filter has narrowed a two-page folder to some but not all of its
\* entries.
C19_Witness ==
    /\ Len(allFiles) > filesPerPage
    /\ filteredFiles # allFiles
    /\ filteredFiles # <<>>

FileKeys(files) == KeysOf(selectableFiles(files))

\* C20 as stated: after select-all was checked, toggling a file off leaves
\* the checkbox unchecked; toggling it on again makes the selection exactly
\* the keys of the filtered list's files and the checkbox checked.
C20_ReselectRestoresExactly ==
    /\ selTrail.stage = "off" => ~selectAll
    /\ selTrail.stage = "on"
          => /\ selectedFiles = FileKeys(filteredFiles)
             /\ selectAll

\* C20 amended: after select-all was checked, toggling a file off leaves the
\* checkbox unchecked; toggling it on again leaves every file of the filtered
\* list selected and the checkbox checked.  The selection holds no folder key,
\* but it also still holds the files that were selected before and that the
\* filter in force hides.
C20_ReselectRestoresAll ==
    /\ selTrail.stage = "off"
          => (~selectAll /\ selTrail.key \notin selectedFiles)
    /\ selTrail.stage = "on"
          => /\ FileKeys(filteredFiles) \subseteq selectedFiles
             /\ selectedFiles \subseteq FileKeys(allFiles)
             /\ selTrail.key \in selectedFiles
             /\ selectAll

\* A file was toggled off and on again after select-all, and the selection
\* holds a file that the filter in force hides.
C20_Witness ==
    /\ selTrail.stage = "on"
    /\ selectAll
    /\ FileKeys(filteredFiles) # {}
    /\ selectedFiles \ FileKeys(filteredFiles) # {}

\* ------------------------------------------------------------------------
\* The poller while a job runs (C26, C27, C30)
\* ------------------------------------------------------------------------

\* C26: a status answer that carries a job whose status is running,
\* processing or pending shows that job and leaves the timer handle and the
\* live timers as they were; the handle goes from a timer to null only on a
\* status answer with a terminal status or without a job, or on a DELETE
\* answered ok.
C26_ActiveStatusKeepsPolling ==
    /\ [][\A r \in Handles, out \in ActiveStatuses :
             checkCurrentJob(r, out)
                => /\ jobDisplay' = out
                   /\ currentJobSection'
                   /\ pollingInterval' = pollingInterval
                   /\ activeTimers' = activeTimers]_vars
    /\ [][(pollingInterval # 0 /\ pollingInterval' = 0)
             => \/ /\ adminEvent'.op = "checkCurrentJob"
                   /\ adminEvent'.out \in TerminalStatuses \cup {"nojob"}
                \/ /\ adminEvent'.op = "CancelResponse"
                   /\ adminEvent'.out = "ok"]_vars

\* A poll was answered "pending" while a timer was live, and it still is.
C26_Witness ==
    /\ adminEvent.op = "checkCurrentJob"
    /\ adminEvent.out = "pending"
    /\ adminEvent.prev # 0
    /\ pollingInterval = adminEvent.prev
    /\ pollingInterval \in activeTimers
    /\ jobDisplay = "pending"

\* C27: the step that handles a status answer "completed" issues exactly one
\* stats request and by then has cleared the timer handle and its timer; the
\* step that handles an answer "running" issues no stats request.
C27_CompletedRefreshesStatsOnce ==
    [][\A r \in Handles :
          /\ checkCurrentJob(r, "completed")
                => /\ statsReqs' = statsReqs + 1
                   /\ pollingInterval' = 0
                   /\ pollingInterval \notin activeTimers'
          /\ checkCurrentJob(r, "running") => statsReqs' = statsReqs]_vars

\* A poll answered "completed" found a live timer, and its stats request is
\* in flight with the timer stopped.
C27_Witness ==
    /\ adminEvent.op = "checkCurrentJob"
    /\ adminEvent.out = "completed"
    /\ adminEvent.prev # 0
    /\ statsReqs = 1
    /\ pollingInterval = 0
    /\ adminEvent.prev \notin activeTimers

\* C30 as stated: the answer of a status request that was issued by a timer
\* other than the one installed now (an earlier one, cleared when
\* startRefresh installed this one for its new job) leaves the installed
\* timer alone.
C30_StaleAnswerKeepsTimer ==
    [][\A r \in 1..MaxTimerId, out \in StatusOutcomes :
          (checkCurrentJob(r, out) /\ pollingInterval # 0 /\ r # pollingInterval)
             => (pollingInterval' = pollingInterval
                   /\ pollingInterval \in activeTimers')]_vars

\* ------------------------------------------------------------------------
\* A started phase gives the button back (C25)
\* ------------------------------------------------------------------------

\* C25 as stated: when every request is eventually answered or throws, a
\* phase whose start button was disabled by its start handler gets to a state
\* where the button is enabled again and a status message is shown.
C25_ButtonEnabledAgain ==
    \A ph \in Phases :
       (ph \in btnDisabled)
          ~> (ph \notin btnDisabled /\ processingStatus.type # "none")

\* ------------------------------------------------------------------------
\* The filter's effect (C28)
\* ------------------------------------------------------------------------
lowerChar(c) == IF c = "A" THEN "a" ELSE c

\* term occurs in name when the case of the letters is ignored.
matches(name, term) ==
    \E p \in 0..(Len(name) - Len(term)) :
       \A n \in 1..Len(term) : lowerChar(name[p + n]) = lowerChar(term[n])

\* C28: filterFiles makes the filtered list the entries of the loaded list
\* whose filename contains the search value when case is ignored, in the
\* loaded order, sets currentPage to 1, and leaves the loaded list, the
\* selection, the current folder and the requests in flight as they were.
C28_FilterFrame ==
    [][\A t \in Terms :
          filterFiles(t)
             => /\ filteredFiles' =
                      SelectSeq(allFiles, LAMBDA f : matches(f.filename, t))
                /\ currentPage' = 1
                /\ UNCHANGED <<allFiles, selectedFiles, currentFolderPath,
                               loadReqs, opReqs>>]_vars

\* A two-page folder with a file selected is narrowed to the entries that
\* contain "ab" in either case, one of which is spelled "ab".
C28_Witness ==
    /\ Len(allFiles) > filesPerPage
    /\ selectedFiles # {}
    /\ currentPage = 1
    /\ filteredFiles # <<>>
    /\ filteredFiles = applyFilter(allFiles, <<"A", "b">>)
    /\ \E n \in 1..Len(filteredFiles) : filteredFiles[n].filename = <<"a", "b">>

\* ------------------------------------------------------------------------
\* File operations (C21 - C24, C29)
\* ------------------------------------------------------------------------

\* C21 as stated: every answer of an upload request, a failure included, is
\* counted as uploaded only if it is ok and leaves the handler in its loop;
\* the answer for the last file shows the success banner with the count of
\* ok answers and sends the one folder-contents request of the upload, no
\* earlier answer sends one.
C21_UploadCountsAndReloadsOnce ==
    [][\A out \in UploadOutcomes :
          UploadResponse(out)
             => /\ opName' = "upload"
                /\ opCount' = opCount + (IF out = "ok" THEN 1 ELSE 0)
                /\ IF uploadIndex + 1 = opTotal
                   THEN /\ fileStatus' = FBanner("success",
                                 "Successfully uploaded", opCount')
                        /\ loadReqs' = loadReqs + 1
                        /\ opPc' = "reload"
                   ELSE /\ loadReqs' = loadReqs
                        /\ opPc' = "request"]_vars

\* C22 as stated: an upload request that fails (a non-ok answer or a thrown
\* request) for a file that is not the last is followed by the upload request
\* of the next file.
C22_UploadFailureGoesOn ==
    [][\A out \in UploadOutcomes \ {"ok"} :
          (UploadResponse(out) /\ uploadIndex + 1 < opTotal)
             => /\ opName' = "upload"
                /\ opPc' = "request"
                /\ opReqs' = 1
                /\ uploadIndex' = uploadIndex + 1]_vars

Blank(name) == \A n \in 1..Len(name) : name[n] = " "

\* No request is sent, no handler is left waiting, and the selection, the
\* folder and the lists are as before.
Refusal ==
    /\ opPc' = "idle"
    /\ UNCHANGED <<opReqs, loadReqs, selectedFiles, currentFolderPath,
                   allFiles, filteredFiles>>

\* C23: confirmCreateFolder and createFolderForMove with a name that is empty
\* or all spaces, downloadSelectedFiles, deleteSelectedFiles and
\* moveSelectedFiles with nothing selected, and confirmMoveFiles with no
\* destination chosen send no request and leave the selection, the current
\* folder and the lists unchanged.
C23_ValidationShortCircuits ==
    [][/\ \A name \in FolderNames :
             (Blank(name)
                /\ (confirmCreateFolder(name) \/ createFolderForMove(name)))
                => Refusal
       /\ (selectedFiles = {}
             /\ (\/ downloadSelectedFiles
                 \/ \E confirmed \in BOOLEAN : deleteSelectedFiles(confirmed)
                 \/ moveSelectedFiles))
             => Refusal
       /\ (moveDestinationPath = "null" /\ confirmMoveFiles) => Refusal]_vars

\* A folder name of spaces only was refused while files were selected in a
\* folder other than the root.
C23_Witness ==
    /\ fileStatus = FBanner("error", "Please enter a folder name", 0)
    /\ opPc = "idle"
    /\ selectedFiles # {}
    /\ currentFolderPath # ""
    /\ loadReqs = 0

\* C24 as stated: when the handler of an upload, a delete or a move returns,
\* no file is selected.
C24_SelectionClearedOnCompletion ==
    [][(opName \in {"upload", "delete", "move"}
          /\ opPc # "idle" /\ opPc' = "idle")
          => selectedFiles' = {}]_vars

\* C29: a delete or move has at most one request awaiting its answer; every
\* answer, whatever it is, is followed by the request for a key not yet taken
\* if there is one; the count grows by one on an ok answer and on no other;
\* and when no key is left every selected key has been taken and the banner
\* shows the count.
C29_SequentialBestEffort ==
    /\ [](opName \in {"delete", "move"}
            => (opReqs <= 1 /\ (opReqs = 1 <=> opPc = "request")))
    /\ [][(opName' \in {"delete", "move"} /\ opName' # opName)
             => (opCount' = 0 /\ opVisited' \subseteq selectedFiles
                    /\ Cardinality(opVisited') <= 1)]_vars
    /\ [][\A out \in CallOutcomes :
             (DeleteResponse(out) \/ MoveResponse(out))
                => /\ opCount' = opCount + (IF out = "ok" THEN 1 ELSE 0)
                   /\ IF selectedFiles \ opVisited # {}
                      THEN /\ opReqs' = 1
                           /\ \E key \in selectedFiles \ opVisited :
                                 opVisited' = opVisited \cup {key}
                      ELSE /\ opReqs' = 0
                           /\ selectedFiles \subseteq opVisited
                           /\ fileStatus'.type = "success"
                           /\ fileStatus'.count = opCount']_vars

\* A delete whose first request was not answered ok has sent its second.
C29_Witness ==
    /\ opName = "delete"
    /\ opPc = "request"
    /\ Cardinality(opVisited) = 2
    /\ opCount = 0

\* ------------------------------------------------------------------------
\* The poller and the job id (C34, C35, C36)
\* ------------------------------------------------------------------------

\* C34: whenever the timer handle holds a timer, or any timer is live,
\* adminState.currentJobId holds a job id.
C34_TimerImpliesJobId ==
    (pollingInterval # 0 \/ activeTimers # {}) => currentJobId # 0

\* A second refresh was started and a DELETE was answered (not ok) while the
\* second job's timer is live.
C34_Witness ==
    /\ pollingInterval = 2
    /\ pollingInterval \in activeTimers
    /\ currentJobId = 2
    /\ adminEvent.op = "CancelResponse"

\* C35 as stated: once a status answer with a terminal status or without a
\* job has stopped the poller, a click on cancel sends no DELETE and shows
\* the warning that there is no active job.
C35_CancelOnlyWhilePolled ==
    [][(/\ cancelCurrentJob
        /\ pollingInterval = 0
        /\ adminEvent.op = "checkCurrentJob"
        /\ adminEvent.out \in TerminalStatuses \cup {"nojob"}
        /\ adminEvent.prev # 0)
          => /\ cancelReqs' = cancelReqs
             /\ adminStatus' = Banner("warning", "No active job to cancel")]_vars

\* C36: the step that handles a status request that threw leaves the timer
\* handle, the live timers, the job shown, the job section, the job id, the
\* banner and the stats requests as they were; a timer that was live can
\* fire again.
C36_ThrownPollChangesNothing ==
    [][\A r \in Handles :
          checkCurrentJob(r, "throw")
             => /\ UNCHANGED <<pollingInterval, activeTimers, jobDisplay,
                               currentJobSection, currentJobId, adminStatus,
                               statsReqs>>
                /\ \A t \in activeTimers : t \in activeTimers']_vars

\* A poll threw while a job was shown and its timer was live; the timer has
\* fired again and that request is in flight.
C36_Witness ==
    /\ adminEvent.op = "checkCurrentJob"
    /\ adminEvent.out = "throw"
    /\ adminEvent.prev # 0
    /\ pollingInterval = adminEvent.prev
    /\ pollingInterval \in activeTimers
    /\ jobDisplay = "running"
    /\ statusReqs[pollingInterval] > 0

\* ------------------------------------------------------------------------
\* The selection and the select-all checkbox (C37, C38)
\* ------------------------------------------------------------------------

\* C37 as stated: whenever no folder-contents request is awaited (no handler
\* is suspended), the select-all checkbox is checked exactly when the
\* filtered list has a file-type entry and all its file-type entries are in
\* the selection set.
C37_SelectAllReflectsSelection ==
    loadReqs = 0 => (selectAll <=> allSelected(filteredFiles, selectedFiles))

\* C38: every key of the selection set is the key of a file-type entry of
\* allFiles.
C38_SelectionWithinLoadedFiles ==
    \A key \in selectedFiles :
       \E n \in 1..Len(allFiles) :
          allFiles[n].key = key /\ allFiles[n].type = "file"

\* Select-all was clicked on a list that starts with a folder and has
\* files, and no load is awaited.
C38_Witness ==
    /\ selTrail.stage = "all"
    /\ Len(allFiles) > 1
    /\ allFiles[1].type = "folder"
    /\ selectedFiles # {}
    /\ loadReqs = 0

\* ------------------------------------------------------------------------
\* The progress display and the empty work list (C39, C40)
\* ------------------------------------------------------------------------
Looping == pc \in {"batch", "download", "fetch", "spin"}

C40_EmptyListDoesNothing ==
    [][(/\ pc = "enumerate"
        /\ procEvent'.op = "EnumerateResponse"
        /\ procEvent'.out = "ok"
        /\ workList' = <<>>)
          => /\ UNCHANGED <<batchReqs, sentLog, progress, processed, failed,
                            phaseStatus>>
             /\ processingStatus' = PBanner("success", "loaded", 0, 0)
             /\ pc' = "jobs"]_vars

\* The embeddings phase found no entity without an embedding: the handler
\* is at its finally with the label still pending and nothing sent.
C40_Witness ==
    /\ phase = "embeddings"
    /\ pc = "jobs"
    /\ procEvent.op = "EnumerateResponse"
    /\ procEvent.out = "ok"
    /\ workList = <<>>
    /\ phaseStatus["embeddings"] = "pending"
    /\ sentLog = <<>>
    /\ progress.percent = 0

\* ------------------------------------------------------------------------
\* Clicks while a handler awaits an answer (C31, C32, C33)
\* ------------------------------------------------------------------------

\* C31 as stated: the DELETE requests a run of deleteSelectedFiles has sent
\* are for keys that were selected when it began, and once its loop has
\* ended it has sent one for each of those keys.
C31_DeletesWhatWasConfirmed ==
    opName = "delete"
       => /\ opSent \subseteq opAtStart
          /\ opPc = "reload" => opSent = opAtStart

\* C32 as stated: when the list holds the contents of the current folder
\* and the answer of the last folder-contents request still in flight is
\* stored, the list holds the contents of the current folder afterwards.
C32_LastAnswerIsCurrentFolder ==
    [][\A listing \in OpsListings :
          (/\ LoadResponse("ok", listing)
           /\ loadReqs' = 0
           /\ loadedPath = currentFolderPath)
             => loadedPath' = currentFolderPath]_vars

\* C33 as stated: the upload requests a run of handleFileUpload has sent all
\* carry the folder that was current when it began.
C33_UploadsToStartFolder ==
    opName = "upload" => opSent = opAtStart

====
